---- MODULE Spec2Model ----
(***************************************************************************)
(* The two diagnostic scripts of the repository, test_setup.py (a chain of *)
(* seven try/except checks) and check_pinecone.py (one try/except around a *)
(* key check and an index lookup), as one state machine.  A run executes   *)
(* one script from its first line to the end of the process.  The external *)
(* collaborators are opaque: which of their calls raise, what the          *)
(* environment holds for the two API keys and which indexes the vector     *)
(* service lists are fixed when the process starts and drawn in Init.      *)
(***************************************************************************)
EXTENDS Integers, Sequences, FiniteSets

\* ------------------------------------------------------------------ bounds

\* Index names the vector service may list besides "medicalbot" (name 0).
MaxOther == 1

\* ------------------------------------------------------- program constants

\* test_setup.py has seven numbered try blocks, "# Test 1" .. "# Test 7".
NumSteps == 7

\* The argument of every exit(...) call of both scripts.
ExitFailure == 1

\* ------------------------------------------------------------ environment

Scripts == {"test_setup", "check_pinecone"}

\* Collaborator calls made by the scripts; "import" stands for the import
\* statements of a try block.
Calls ==
    {"import", "load_dotenv", "load_pdf_file", "text_split",
     "download_hugging_face_embeddings", "Pinecone", "list_indexes",
     "ChatGoogleGenerativeAI", "invoke"}

\* The calls each script contains.
CallsOf(s) ==
    IF s = "test_setup" THEN Calls
    ELSE {"import", "load_dotenv", "Pinecone", "list_indexes"}

\* What os.environ.get(name) can return once load_dotenv() has run:
\* None ("absent"), the empty string ("empty") or a non-empty string ("set").
EnvValues == {"absent", "empty", "set"}

\* The environment variables each script reads.
KeysOf(s) ==
    IF s = "test_setup" THEN {"PINECONE_API_KEY", "GOOGLE_API_KEY"}
    ELSE {"PINECONE_API_KEY"}

KeyNames == {"PINECONE_API_KEY", "GOOGLE_API_KEY"}

\* Index names: 0 is "medicalbot", 1..MaxOther are other indexes.
medicalbot == 0
IndexNames == 0..MaxOther

\* Python variables of the module namespace that a later statement reads.
\* "imports" stands for the names bound by the import statements.
VarNames ==
    {"imports", "PINECONE_API_KEY", "GOOGLE_API_KEY", "extracted_data",
     "text_chunks", "embeddings", "indexes", "test_response"}

VARIABLES
    script,       \* which script this process runs
    raises,       \* the collaborator calls that raise an Exception
    environ,      \* os.environ after load_dotenv(): key name -> EnvValues
    remote,       \* the index names pc.list_indexes() returns
    step,         \* number of the "# Test k" block being executed (0: none)
    pc,           \* position inside the block / script
    exc,          \* the exception in flight: "none", "Exception", "SystemExit"
    ns,           \* module namespace: variable -> "unbound" or its value
    out,          \* lines written to standard output, in order
    invoked,      \* how many times each collaborator call was made
    ran,          \* how many times each test's try body was entered
    nameErrors,   \* reads of a variable that was not bound
    status        \* process exit status; -1 while the process runs

vars ==
    <<script, raises, environ, remote, step, pc, exc, ns, out, invoked, ran,
      nameErrors, status>>

envVars == <<script, raises, environ, remote>>

\* ---------------------------------------------------------------- helpers

\* One printed line: its kind and the test it belongs to (0: no test).
Line(kind, k) == [kind |-> kind, step |-> k]

\* print(...) of several lines, one after the other.
Emit(lines) == out' = out \o lines

\* Python truthiness of a key value: None and "" are falsy.
TruthyEmptyToo(v) == v \in {"empty", "set"}
Truthy(v) == v = "set"

\* "except Exception as e" catches Exception and its subclasses (NameError
\* among them), never SystemExit, which derives from BaseException.
CatchesBaseException(e) == e \in {"Exception", "SystemExit"}
Catches(e) == e = "Exception"

\* An exception e raised inside a try body: control goes to the handler when
\* the except clause matches, and leaves the script otherwise.
Raise(e) ==
    /\ exc' = e
    /\ pc' = IF Catches(e) THEN "except" ELSE "uncaught"

\* The first call of the sequence cs that raises (0: none does).
FirstRaise(cs) ==
    IF \E i \in 1..Len(cs) : cs[i] \in raises
    THEN CHOOSE i \in 1..Len(cs) :
            /\ cs[i] \in raises
            /\ \A j \in 1..(i - 1) : cs[j] \notin raises
    ELSE 0

\* The calls of cs that are actually made: all of them, or those up to and
\* including the first one that raises.
Made(cs) ==
    IF FirstRaise(cs) = 0 THEN {cs[i] : i \in 1..Len(cs)}
    ELSE {cs[i] : i \in 1..FirstRaise(cs)}

\* The try body makes the calls cs in order; reads names the variables it
\* evaluates first (an unbound one raises NameError before any call).
\* binds gives the assignments made when nothing raises.
TryBody(reads, cs, binds) ==
    IF \E v \in reads : ns[v] = "unbound"
    THEN /\ nameErrors' = nameErrors + 1
         /\ Raise("Exception")
         /\ UNCHANGED <<ns, invoked>>
    ELSE /\ invoked' = [c \in Calls |->
                          IF c \in Made(cs) THEN invoked[c] + 1 ELSE invoked[c]]
         /\ UNCHANGED nameErrors
         /\ IF FirstRaise(cs) # 0
            THEN /\ Raise("Exception")
                 /\ UNCHANGED ns
            ELSE /\ ns' = [v \in VarNames |->
                             IF v \in DOMAIN binds THEN binds[v] ELSE ns[v]]
                 /\ pc' = "ok"
                 /\ UNCHANGED exc

\* exit(code) called outside any try body (in an except handler): the
\* SystemExit it raises ends the process with that status.
Exit(code) ==
    /\ pc' = "exited"
    /\ status' = code
    /\ exc' = "SystemExit"

InTest(k, at) == script = "test_setup" /\ step = k /\ pc = at

\* --------------------------------------------------------------- Init

Init ==
    /\ script \in Scripts
    /\ raises \in SUBSET CallsOf(script)
    /\ environ \in {e \in [KeyNames -> EnvValues] :
                      \A n \in KeyNames \ KeysOf(script) : e[n] = "absent"}
    /\ remote \in SUBSET IndexNames
    /\ step = 0
    /\ pc = "start"
    /\ exc = "none"
    /\ ns = [v \in VarNames |-> "unbound"]
    /\ out = <<>>
    /\ invoked = [c \in Calls |-> 0]
    /\ ran = [k \in 1..NumSteps |-> 0]
    /\ nameErrors = 0
    /\ status = -1

\* ------------------------------------------------------- test_setup.py

\* Lines 6-7: the title and the rule printed before the first test.
T_Start ==
    /\ script = "test_setup" /\ pc = "start"
    /\ Emit(<<Line("title", 0), Line("rule", 0)>>)
    /\ step' = 1
    /\ pc' = "begin"
    /\ UNCHANGED <<envVars, exc, ns, invoked, ran, nameErrors, status>>

\* First statement of the try block of test k: print("k. Testing ...").
Begin(k) ==
    /\ InTest(k, "begin")
    /\ Emit(<<Line("begin", k)>>)
    /\ pc' = "try"
    /\ UNCHANGED <<envVars, step, exc, ns, invoked, ran, nameErrors, status>>

\* The statements of the try block of test k between the first print and the
\* success print.
Try(k, reads, cs, binds) ==
    /\ InTest(k, "try")
    /\ ran' = [ran EXCEPT ![k] = @ + 1]
    /\ TryBody(reads, cs, binds)
    /\ UNCHANGED <<script, raises, remote, step, out, status>>

\* Where control goes after the last statement of the try block of test k.
AfterOkEarly(k) ==
    /\ step' = IF k < NumSteps - 1 THEN k + 1 ELSE k
    /\ pc' = IF k < NumSteps - 1 THEN "begin" ELSE "banner"
AfterOk(k) ==
    /\ step' = IF k < NumSteps THEN k + 1 ELSE k
    /\ pc' = IF k < NumSteps THEN "begin" ELSE "banner"

\* Last statement(s) of the try block of test k: the success print(s).
Ok(k, lines) ==
    /\ InTest(k, "ok")
    /\ Emit(lines)
    /\ AfterOk(k)
    /\ UNCHANGED <<envVars, exc, ns, invoked, ran, nameErrors, status>>

\* The except handler of test k: the failure print(s), then exit(1).
ExceptNoExit(k, lines) ==
    /\ InTest(k, "except")
    /\ Emit(lines)
    /\ AfterOk(k)
    /\ exc' = "none"
    /\ UNCHANGED <<envVars, ns, invoked, ran, nameErrors, status>>
Except(k, lines) ==
    /\ InTest(k, "except")
    /\ Emit(lines)
    /\ Exit(ExitFailure)
    /\ UNCHANGED <<envVars, step, ns, invoked, ran, nameErrors>>

\* Test 1, lines 10-20: the imports.
T1_Begin ==
    /\ script = "test_setup"
    /\ Begin(1)
T1_Try ==
    /\ Try(1, {}, <<"import">>, [imports |-> "bound"])
    /\ UNCHANGED environ
T1_Ok ==
    /\ script = "test_setup"
    /\ Ok(1, <<Line("success", 1)>>)
T1_Except ==
    /\ script = "test_setup"
    /\ Except(1, <<Line("failure", 1)>>)

\* Test 2, lines 22-36: the environment variables.
T2_Begin ==
    /\ script = "test_setup"
    /\ Begin(2)

\* Lines 25-27: load_dotenv() and the two os.environ.get(...).
T2_Try ==
    /\ Try(2, {"imports"}, <<"load_dotenv">>,
           [PINECONE_API_KEY |-> environ["PINECONE_API_KEY"],
            GOOGLE_API_KEY |-> environ["GOOGLE_API_KEY"]])
    /\ UNCHANGED environ

\* Lines 29-30: both keys are truthy.
T2_Ok ==
    /\ Truthy(ns["PINECONE_API_KEY"]) /\ Truthy(ns["GOOGLE_API_KEY"])
    /\ Ok(2, <<Line("success", 2)>>)

\* Lines 31-33: a key is None or empty; the failure print, then exit(1)
\* inside the try block, whose SystemExit the except clause is offered.
T2_Missing ==
    /\ InTest(2, "ok")
    /\ ~(Truthy(ns["PINECONE_API_KEY"]) /\ Truthy(ns["GOOGLE_API_KEY"]))
    /\ Emit(<<Line("failure", 2)>>)
    /\ Raise("SystemExit")
    /\ UNCHANGED <<envVars, step, ns, invoked, ran, nameErrors, status>>

T2_Except ==
    /\ script = "test_setup"
    /\ Except(2, <<Line("failure", 2)>>)

\* Test 3, lines 38-45: load_pdf_file.
T3_Begin ==
    /\ script = "test_setup"
    /\ Begin(3)
T3_Try ==
    /\ Try(3, {"imports"}, <<"load_pdf_file">>, [extracted_data |-> "bound"])
    /\ UNCHANGED environ
T3_Ok ==
    /\ script = "test_setup"
    /\ Ok(3, <<Line("success", 3)>>)
T3_ExceptNoExit == ExceptNoExit(3, <<Line("failure", 3)>>)
T3_Except ==
    /\ script = "test_setup"
    /\ Except(3, <<Line("failure", 3)>>)

\* Test 4, lines 47-54: text_split(extracted_data).
T4_Begin ==
    /\ script = "test_setup"
    /\ Begin(4)
T4_Try ==
    /\ Try(4, {"imports", "extracted_data"}, <<"text_split">>,
           [text_chunks |-> "bound"])
    /\ UNCHANGED environ
T4_Ok ==
    /\ script = "test_setup"
    /\ Ok(4, <<Line("success", 4)>>)
T4_Except ==
    /\ script = "test_setup"
    /\ Except(4, <<Line("failure", 4)>>)

\* Test 5, lines 56-63: download_hugging_face_embeddings.
T5_Begin ==
    /\ script = "test_setup"
    /\ Begin(5)
T5_Try ==
    /\ Try(5, {"imports"}, <<"download_hugging_face_embeddings">>,
           [embeddings |-> "bound"])
    /\ UNCHANGED environ
T5_Ok ==
    /\ script = "test_setup"
    /\ Ok(5, <<Line("success", 5)>>)
T5_Except ==
    /\ script = "test_setup"
    /\ Except(5, <<Line("failure", 5)>>)

\* Test 6, lines 65-73: Pinecone(api_key=PINECONE_API_KEY).list_indexes().
T6_Begin ==
    /\ script = "test_setup"
    /\ Begin(6)
T6_Try ==
    /\ Try(6, {"imports", "PINECONE_API_KEY"}, <<"Pinecone", "list_indexes">>,
           [indexes |-> "bound"])
    /\ UNCHANGED environ
T6_Ok ==
    /\ script = "test_setup"
    /\ Ok(6, <<Line("success", 6)>>)
T6_Except ==
    /\ script = "test_setup"
    /\ Except(6, <<Line("failure", 6)>>)

\* Test 7, lines 75-88: the language model.
T7_Begin ==
    /\ script = "test_setup"
    /\ Begin(7)

\* Lines 78-82: os.environ["GOOGLE_API_KEY"] = GOOGLE_API_KEY (a TypeError
\* when the value is None), the client's construction and llm.invoke(...).
T7_Try ==
    IF ns["GOOGLE_API_KEY"] = "absent"
    THEN /\ InTest(7, "try")
         /\ ran' = [ran EXCEPT ![7] = @ + 1]
         /\ Raise("Exception")
         /\ UNCHANGED <<envVars, step, ns, out, invoked, nameErrors, status>>
    ELSE /\ Try(7, {"imports", "GOOGLE_API_KEY"},
                <<"ChatGoogleGenerativeAI", "invoke">>,
                [test_response |-> "bound"])
         /\ environ' = IF ns["GOOGLE_API_KEY"] = "unbound" THEN environ
                       ELSE [environ EXCEPT !["GOOGLE_API_KEY"] =
                                               ns["GOOGLE_API_KEY"]]

\* Lines 83-84: the success line, then the "Test response: ..." line.  The
\* message llm.invoke returned has a content that is a string or a list, so
\* content[:50] and its formatting do not raise.
T7_Ok ==
    /\ script = "test_setup"
    /\ Ok(7, <<Line("success", 7), Line("detail", 7)>>)

\* Lines 85-88: the failure line, the tip line, then exit(1).
T7_Except ==
    /\ script = "test_setup"
    /\ Except(7, <<Line("failure", 7), Line("tip", 7)>>)

\* Lines 90-95: the rule, the banner and the four next-steps lines.
T_Banner ==
    /\ script = "test_setup" /\ pc = "banner"
    /\ Emit(<<Line("rule", 0), Line("banner", 0), Line("guidance", 0),
              Line("guidance", 0), Line("guidance", 0), Line("guidance", 0)>>)
    /\ pc' = "end"
    /\ UNCHANGED <<envVars, step, exc, ns, invoked, ran, nameErrors, status>>

\* ---------------------------------------------------- check_pinecone.py

\* Line 6: the title.
C_Start ==
    /\ script = "check_pinecone" /\ pc = "start"
    /\ Emit(<<Line("title", 0)>>)
    /\ pc' = "try"
    /\ UNCHANGED <<envVars, step, exc, ns, invoked, ran, nameErrors, status>>

\* Lines 9-14: the imports, load_dotenv() and os.environ.get(...).
C_Try ==
    /\ script = "check_pinecone" /\ pc = "try"
    /\ TryBody({}, <<"import", "load_dotenv">>,
               [imports |-> "bound",
                PINECONE_API_KEY |-> environ["PINECONE_API_KEY"]])
    /\ UNCHANGED <<envVars, step, out, ran, status>>

\* Lines 16-18: the key is None or empty; the report, then exit(1) inside
\* the try block.
C_Missing ==
    /\ script = "check_pinecone" /\ pc = "ok"
    /\ ~Truthy(ns["PINECONE_API_KEY"])
    /\ Emit(<<Line("missing", 0)>>)
    /\ Raise("SystemExit")
    /\ UNCHANGED <<envVars, step, ns, invoked, ran, nameErrors, status>>

\* Lines 20-24: the client, list_indexes(), the names and their print.
C_Connect ==
    /\ script = "check_pinecone" /\ pc = "ok"
    /\ Truthy(ns["PINECONE_API_KEY"])
    /\ invoked' = [c \in Calls |->
                     IF c \in Made(<<"Pinecone", "list_indexes">>)
                     THEN invoked[c] + 1 ELSE invoked[c]]
    /\ IF FirstRaise(<<"Pinecone", "list_indexes">>) # 0
       THEN /\ Raise("Exception")
            /\ UNCHANGED <<ns, out>>
       ELSE /\ ns' = [ns EXCEPT !["indexes"] = "bound"]
            /\ Emit(<<Line("available", 0)>>)
            /\ pc' = "check"
            /\ UNCHANGED exc
    /\ UNCHANGED <<envVars, step, ran, nameErrors, status>>

\* Lines 26-28: "medicalbot" is among the names.
C_Found ==
    /\ script = "check_pinecone" /\ pc = "check"
    /\ medicalbot \in remote
    /\ Emit(<<Line("exists", 0), Line("ready", 0)>>)
    /\ pc' = "end"
    /\ UNCHANGED <<envVars, step, exc, ns, invoked, ran, nameErrors, status>>

\* Lines 29-31: it is not.
C_NotFound ==
    /\ script = "check_pinecone" /\ pc = "check"
    /\ medicalbot \notin remote
    /\ Emit(<<Line("warning", 0), Line("hint", 0)>>)
    /\ pc' = "end"
    /\ UNCHANGED <<envVars, step, exc, ns, invoked, ran, nameErrors, status>>

\* Lines 33-34: the except handler prints the error and falls through.
C_Except ==
    /\ script = "check_pinecone" /\ pc = "except"
    /\ Emit(<<Line("error", 0)>>)
    /\ exc' = "none"
    /\ pc' = "end"
    /\ UNCHANGED <<envVars, step, ns, invoked, ran, nameErrors, status>>

\* ------------------------------------------------------- process endings

\* A SystemExit no except clause caught ends the process with its code.
Uncaught ==
    /\ pc = "uncaught"
    /\ pc' = "exited"
    /\ status' = ExitFailure
    /\ UNCHANGED <<envVars, step, exc, ns, out, invoked, ran, nameErrors>>

\* The last statement of the script has run: the process exits with 0.
EndOfScript ==
    /\ pc = "end"
    /\ pc' = "exited"
    /\ status' = 0
    /\ UNCHANGED <<envVars, step, exc, ns, out, invoked, ran, nameErrors>>

Next ==
    \/ T_Start
    \/ T1_Begin \/ T1_Try \/ T1_Ok \/ T1_Except
    \/ T2_Begin \/ T2_Try \/ T2_Ok \/ T2_Missing \/ T2_Except
    \/ T3_Begin \/ T3_Try \/ T3_Ok \/ T3_Except
    \/ T4_Begin \/ T4_Try \/ T4_Ok \/ T4_Except
    \/ T5_Begin \/ T5_Try \/ T5_Ok \/ T5_Except
    \/ T6_Begin \/ T6_Try \/ T6_Ok \/ T6_Except
    \/ T7_Begin \/ T7_Try \/ T7_Ok \/ T7_Except
    \/ T_Banner
    \/ C_Start \/ C_Try \/ C_Missing \/ C_Connect
    \/ C_Found \/ C_NotFound \/ C_Except
    \/ Uncaught \/ EndOfScript

Spec == Init /\ [][Next]_vars

\* ------------------------------------------------ vocabulary of the claims

Setup == script = "test_setup"
Pinecone == script = "check_pinecone"
Terminated == pc = "exited"

\* Number of printed lines of a kind, and of a kind for one test.
Count(kind) == Cardinality({i \in DOMAIN out : out[i].kind = kind})
CountOf(kind, k) ==
    Cardinality({i \in DOMAIN out : out[i].kind = kind /\ out[i].step = k})
Printed(kind, k) == \E i \in DOMAIN out : out[i] = Line(kind, k)

\* The collaborator calls the try block of test k makes.
StepCalls(k) ==
    CASE k = 1 -> {"import"}
      [] k = 2 -> {"load_dotenv"}
      [] k = 3 -> {"load_pdf_file"}
      [] k = 4 -> {"text_split"}
      [] k = 5 -> {"download_hugging_face_embeddings"}
      [] k = 6 -> {"Pinecone", "list_indexes"}
      [] k = 7 -> {"ChatGoogleGenerativeAI", "invoke"}

\* The action of test k fails in this environment: one of its calls raises
\* or, for test 2, a key is absent or empty.
StepFails(k) ==
    \/ StepCalls(k) \cap raises # {}
    \/ k = 2 /\ \E n \in KeyNames : environ[n] # "set"

\* Test k is the first test whose action fails.
FirstFailing(k) == StepFails(k) /\ \A j \in 1..(k - 1) : ~StepFails(j)

NoStepFails == \A k \in 1..NumSteps : ~StepFails(k)

\* The try/except block of test k has been left.
Finished(k) ==
    \/ step > k
    \/ step = k /\ pc \in {"uncaught", "exited", "banner", "end"}

\* The external collaborators of the scripts (everything but the imports and
\* the .env loader).
Collaborators ==
    {"load_pdf_file", "text_split", "download_hugging_face_embeddings",
     "Pinecone", "list_indexes", "ChatGoogleGenerativeAI", "invoke"}

IsSuccess(l) == l.kind = "success"
IsBegin(l) == l.kind = "begin"
IsTestLine(l) == l.step >= 1

\* The run state of the spec's state machine, read off the position.
RunState ==
    IF pc = "start" THEN "NotStarted"
    ELSE IF pc \in {"except", "uncaught"} \/ (pc = "exited" /\ status # 0)
         THEN "Failed"
    ELSE IF pc \in {"banner", "end"} \/ (pc = "exited" /\ status = 0)
         THEN "Completed"
    ELSE "Running"

\* ------------------------------------------------------------------ claims

\* C1: fail-fast.  In test_setup.py, when test k is the first test whose
\* action fails, the try body of no later test is ever entered, none of the
\* calls of a later test is made, the run never gets past test k, and it
\* terminates in test k with the action of k run once.
C1_FailFast ==
    Setup =>
        \A k \in 1..NumSteps :
            FirstFailing(k) =>
                /\ \A j \in (k + 1)..NumSteps :
                      /\ ran[j] = 0
                      /\ \A c \in StepCalls(j) : invoked[c] = 0
                /\ step <= k
                /\ pc \notin {"banner", "end"}
                /\ Terminated => step = k /\ ran[k] = 1 /\ status = ExitFailure

C1_Witness ==
    Setup /\ Terminated /\ FirstFailing(4) /\ ran[4] = 1 /\ ran[5] = 0

\* C2: exit status of both scripts is 0 exactly when every check succeeded
\* (for check_pinecone.py: the key is present, no call raises and the
\* "medicalbot" index is listed).
AllChecksSucceeded ==
    IF Setup THEN NoStepFails
    ELSE /\ environ["PINECONE_API_KEY"] = "set"
         /\ raises = {}
         /\ medicalbot \in remote

C2_ExitStatus ==
    Terminated => (status = 0 <=> AllChecksSucceeded)

\* C3: when test k of test_setup.py fails and no earlier test fails, the
\* finished run has printed exactly k begin lines (tests 1..k), k-1 success
\* lines (tests 1..k-1), one failure line, which is the one of test k, and
\* no line of any kind for a test after k.
C3_LineCounts ==
    (Setup /\ Terminated) =>
        \A k \in 1..NumSteps :
            FirstFailing(k) =>
                /\ Count("begin") = k
                /\ \A j \in 1..k : CountOf("begin", j) = 1
                /\ Count("success") = k - 1
                /\ \A j \in 1..(k - 1) : CountOf("success", j) = 1
                /\ Count("failure") = 1
                /\ CountOf("failure", k) = 1
                /\ \A i \in DOMAIN out : out[i].step <= k

C3_Witness ==
    /\ Setup /\ Terminated /\ FirstFailing(2)
    /\ "load_dotenv" \notin raises
    /\ Count("failure") = 1

\* C4: when the actions of all seven tests succeed, the finished run has
\* printed the seven success lines in the order 1..7, each test ran once,
\* the banner and the four next-steps lines come after the last line of
\* test 7, and the exit status is 0.
C4_FullSuccess ==
    (Setup /\ NoStepFails /\ Terminated) =>
        /\ status = 0
        /\ \A k \in 1..NumSteps : ran[k] = 1
        /\ Count("success") = NumSteps
        /\ SelectSeq(out, IsSuccess) = [k \in 1..NumSteps |-> Line("success", k)]
        /\ Count("failure") = 0
        /\ Count("banner") = 1
        /\ Count("guidance") = 4
        /\ \A i, j \in DOMAIN out :
              (out[i].step >= 1 /\ out[j].kind \in {"banner", "guidance"})
                  => i < j

C4_Witness ==
    Setup /\ Terminated /\ status = 0 /\ Count("banner") = 1

\* C5 as stated: in every failing run of test_setup.py the last line written
\* before the process terminates is the failure line of the test that
\* failed, and no line of a later test appears.
C5_LastLineIsFailure ==
    (Setup /\ Terminated /\ status = ExitFailure) =>
        \A k \in 1..NumSteps :
            FirstFailing(k) =>
                /\ out[Len(out)] = Line("failure", k)
                /\ \A i \in DOMAIN out : out[i].step <= k

\* C5 amended: for a failure in tests 1..6 the last line is the failure line
\* of the failed test; for a failure in test 7 the failure line is followed
\* by exactly one tip line, which is the last line; no line of a later test
\* appears.
C5_LastLines ==
    (Setup /\ Terminated /\ status = ExitFailure) =>
        \A k \in 1..NumSteps :
            FirstFailing(k) =>
                /\ k < NumSteps => out[Len(out)] = Line("failure", k)
                /\ k = NumSteps =>
                      /\ out[Len(out)] = Line("tip", k)
                      /\ out[Len(out) - 1] = Line("failure", k)
                      /\ Count("tip") = 1
                /\ \A i \in DOMAIN out : out[i].step <= k

C5_Witness ==
    /\ Setup /\ Terminated /\ FirstFailing(NumSteps)
    /\ out[Len(out)].kind = "tip"

\* C6: a key that is absent or empty.  No external collaborator is ever
\* invoked in such an environment; once the script has read the keys, the
\* run never gets past the key check (test 2 of test_setup.py, the "if not"
\* of check_pinecone.py) and ends with exit status 1.
C6_MissingKey ==
    (\E n \in KeysOf(script) : environ[n] # "set") =>
        /\ \A c \in Collaborators : invoked[c] = 0
        /\ ns["PINECONE_API_KEY"] # "unbound" =>
              /\ Setup => step = 2
              /\ pc \notin {"check", "banner", "end", "except"}
              /\ Terminated => status = ExitFailure

C6_Witness ==
    /\ Pinecone /\ Terminated
    /\ ns["PINECONE_API_KEY"] = "empty"
    /\ status = ExitFailure

\* C7 as stated: every test of test_setup.py emits exactly one line before
\* its action is invoked and one line after it, and the output is in
\* increasing test order.
C7_TwoLinesPerStep ==
    Setup =>
        \A k \in 1..NumSteps :
            Finished(k) =>
                /\ CountOf("begin", k) = 1
                /\ Cardinality({i \in DOMAIN out : out[i].step = k}) = 2

\* C7 amended: every test emits exactly one begin line, written before its
\* action is invoked, and after the action exactly one result line (success
\* or failure); test 7 alone emits one more line after its result line (the
\* response excerpt after a success, the tip after a failure).  The begin
\* line of test k+1 directly follows the success line of test k, and the
\* lines of the tests appear in increasing test order.
C7_Ordering ==
    Setup =>
        /\ \A k \in 1..NumSteps :
              /\ ran[k] > 0 => CountOf("begin", k) = 1
              /\ (step = k /\ pc = "try") => out[Len(out)] = Line("begin", k)
              /\ Finished(k) =>
                    /\ CountOf("begin", k) = 1
                    /\ CountOf("success", k) + CountOf("failure", k) = 1
                    /\ Cardinality({i \in DOMAIN out : out[i].step = k})
                          = IF k = NumSteps THEN 3 ELSE 2
        /\ \A i \in DOMAIN out :
              out[i].kind = "begin" =>
                  /\ i > 1
                  /\ out[i].step = 1 => out[i - 1] = Line("rule", 0)
                  /\ out[i].step > 1 =>
                        out[i - 1] = Line("success", out[i].step - 1)
                  /\ i < Len(out) =>
                        /\ out[i + 1].step = out[i].step
                        /\ out[i + 1].kind \in {"success", "failure"}
        /\ \A i, j \in DOMAIN out :
              (i < j /\ out[i].step >= 1 /\ out[j].step >= 1)
                  => out[i].step <= out[j].step
        /\ LET b == SelectSeq(out, IsBegin)
           IN  \A i \in DOMAIN b : b[i].step = i

C7_Witness ==
    /\ Setup /\ Terminated /\ status = 0
    /\ Cardinality({i \in DOMAIN out : out[i].step = NumSteps}) = 3
    /\ Cardinality({i \in DOMAIN out : out[i].step = 3}) = 2

\* C8: the run state machine of test_setup.py.  Every step of a run is one
\* of NotStarted -> Running, Running -> Running, Running -> Failed,
\* Running -> Completed; Failed and Completed are never left; Failed is
\* entered in the first failing test and Completed only from test 7 with its
\* success line printed; no test's action is entered twice and the test
\* number never decreases.
C8_StateMachine ==
    [][Setup =>
        /\ \/ RunState = "NotStarted" /\ RunState' = "Running"
           \/ RunState = "Running"
           \/ RunState = "Failed" /\ RunState' = "Failed"
           \/ RunState = "Completed" /\ RunState' = "Completed"
        /\ (RunState = "Running" /\ RunState' = "Failed") => FirstFailing(step)
        /\ (RunState = "Running" /\ RunState' = "Completed") =>
              /\ step = NumSteps
              /\ \E i \in DOMAIN out' : out'[i] = Line("success", NumSteps)
        /\ step' >= step
        /\ \A k \in 1..NumSteps : ran'[k] <= 1 /\ ran'[k] >= ran[k]
      ]_vars

C8_Witness ==
    Setup /\ RunState = "Failed" /\ Terminated /\ step = 5 /\ ran[5] = 1

\* C9: threaded values are defined when consumed.  In test_setup.py no
\* statement ever reads an unbound variable; test 4 is entered only with
\* extracted_data bound by a successful test 3, test 6 only with a non-empty
\* PINECONE_API_KEY, test 7 only with a non-empty GOOGLE_API_KEY and the
\* imported names bound, each after the success line of the producing test.
C9_ThreadedValues ==
    Setup =>
        /\ nameErrors = 0
        /\ (ran[4] > 0 \/ (step = 4 /\ pc = "try")) =>
              /\ ns["extracted_data"] = "bound"
              /\ Printed("success", 3)
        /\ (ran[6] > 0 \/ (step = 6 /\ pc = "try")) =>
              /\ ns["PINECONE_API_KEY"] = "set"
              /\ Printed("success", 2)
        /\ (ran[7] > 0 \/ (step = 7 /\ pc = "try")) =>
              /\ ns["GOOGLE_API_KEY"] = "set"
              /\ ns["imports"] = "bound"
              /\ Printed("success", 2)
              /\ Printed("success", 1)
        /\ invoked["text_split"] > 0 => ns["extracted_data"] = "bound"
        /\ invoked["Pinecone"] > 0 => ns["PINECONE_API_KEY"] = "set"
        /\ invoked["ChatGoogleGenerativeAI"] > 0 => ns["GOOGLE_API_KEY"] = "set"

C9_Witness ==
    /\ Setup /\ ran[4] = 1 /\ ran[6] = 1 /\ ran[7] = 1
    /\ invoked["invoke"] = 1

\* C10: check_pinecone.py.  The two success lines are printed only when the
\* key is non-empty, list_indexes() returned without raising and
\* "medicalbot" is among the names, and never together with a report; a
\* finished run has printed the success lines exactly in that case, and
\* otherwise exactly one of the three reports (missing key, index not
\* found, caught error).
Reports == Count("missing") + Count("warning") + Count("error")

SuccessCase ==
    /\ ns["PINECONE_API_KEY"] = "set"
    /\ invoked["list_indexes"] = 1 /\ "list_indexes" \notin raises
    /\ medicalbot \in remote

C10_SuccessBanner ==
    Pinecone =>
        /\ (Count("exists") > 0 \/ Count("ready") > 0) =>
              /\ SuccessCase
              /\ Count("exists") = 1 /\ Count("ready") = 1
              /\ Reports = 0
        /\ Reports <= 1
        /\ Terminated =>
              /\ SuccessCase <=> (Count("exists") = 1 /\ Count("ready") = 1)
              /\ ~SuccessCase => Reports = 1

C10_Witness ==
    Pinecone /\ Terminated /\ Count("ready") = 1 /\ status = 0

====
